---- MODULE Spec2Model ----
(***************************************************************************)
(* A model of @react-lit/descendants: the descendant registry              *)
(* (DescendantProvider.registerDescendant / unregisterDescendant), the     *)
(* per-descendant hook useDescendant driven by React's render / commit     *)
(* cycle, and the keyboard navigator useDescendantKeyDown.handleKeyDown.   *)
(***************************************************************************)
EXTENDS Integers, Sequences, FiniteSets, TLC

\* Number of distinct element handles (DOM nodes) of the model.
NumElems == 3

\* Longest collection the registry actions build (explicit-index
\* registration can add the same element again, so the length is capped).
MaxLen == 3

\* JavaScript null / undefined for an element handle, an index or a
\* current index.  Element handles are 1..NumElems, indices are >= -1.
Null == -2

Elements == 1 .. NumElems

\* Arbitrary payload carried by a descendant record (`...rest`).
Payloads == {"on", "off"}

\* Index values a caller passes as `index` (useDescendant passes -1 or a
\* position, a pinning caller any number).
ExplicitIndexes == {-1, 0}

\* Position of an element in document order.  Element handles are not
\* numbered in document order: even handles come first, odd handles follow
\* in descending order.
DocPos(e) == IF e % 2 = 0 THEN e \div 2 ELSE NumElems - (e \div 2)

\* The comparison with the operands swapped (DOCUMENT_POSITION_FOLLOWING).
PrecedingBitSwapped(itemElement, element) == DocPos(itemElement) < DocPos(element)

\* item.element.compareDocumentPosition(element) & DOCUMENT_POSITION_PRECEDING:
\* true iff `element` precedes `itemElement` in document order.
PrecedingBit(itemElement, element) == DocPos(element) < DocPos(itemElement)

\* Values of the `index` prop a descendant component is given (indexProp).
PinnedIndexes == {0, 1}

VARIABLES
  items,      \* the provider's state: the collection of descendant records
  lastCall,   \* the call that produced the current state, with its arguments
  queue,      \* updaters handed to set() and not yet applied by a render
  props,      \* per descendant component: its indexProp and its payload
  tree,       \* the descendant components the parent currently renders
  comps,      \* per descendant component: its hook state (see NoComp)
  phase,      \* "idle", or "commit" when a render awaits its commit
  nav         \* the key press being handled and its outcome, <<>> if none

hookVars == <<queue, props, tree, comps, phase>>

Descendant(element, index, rest) ==
  [element |-> element, index |-> index, rest |-> rest]

\* ---------------------------------------------------------------------
\* Array helpers, 0-based as in the source (-1 for "not found").

\* Array.prototype.findIndex(item => item.element === element)
FindIndexOfElement(its, element) ==
  IF \E i \in 1..Len(its) : its[i].element = element
  THEN (CHOOSE i \in 1..Len(its) :
          /\ its[i].element = element
          /\ \A j \in 1..(i - 1) : its[j].element # element) - 1
  ELSE -1

\* items.findIndex(item => { if (!item.element || !element) return false;
\*   return Boolean(item.element.compareDocumentPosition(element) & PRECEDING) })
FindIndexPreceding(its, element) ==
  LET hit(i) == /\ its[i].element # Null
                /\ element # Null
                /\ PrecedingBit(its[i].element, element)
  IN IF \E i \in 1..Len(its) : hit(i)
     THEN (CHOOSE i \in 1..Len(its) : hit(i) /\ \A j \in 1..(i - 1) : ~hit(j)) - 1
     ELSE -1

\* One step of a sort that is not stable: r goes before the records with
\* its index.
RECURSIVE InsertByIndexBeforeEqual(_, _)
InsertByIndexBeforeEqual(sorted, r) ==
  IF sorted = <<>> THEN <<r>>
  ELSE IF sorted[Len(sorted)].index < r.index
       THEN Append(sorted, r)
       ELSE Append(InsertByIndexBeforeEqual(
                     SubSeq(sorted, 1, Len(sorted) - 1), r),
                   sorted[Len(sorted)])

\* One step of the stable sort: r goes after every record whose index is not
\* greater than r.index.
RECURSIVE InsertByIndex(_, _)
InsertByIndex(sorted, r) ==
  IF sorted = <<>> THEN <<r>>
  ELSE IF sorted[Len(sorted)].index <= r.index
       THEN Append(sorted, r)
       ELSE Append(InsertByIndex(SubSeq(sorted, 1, Len(sorted) - 1), r),
                   sorted[Len(sorted)])

\* newItems.sort((a, b) => a.index - b.index): Array.prototype.sort is stable.
RECURSIVE SortByIndex(_)
SortByIndex(its) ==
  IF its = <<>> THEN <<>>
  ELSE InsertByIndex(SortByIndex(SubSeq(its, 1, Len(its) - 1)), its[Len(its)])

\* The reindex pass left out.
ReindexSkipped(its) == its

\* A reindex pass that builds the records anew without their payload.
ReindexDroppingPayload(its) ==
  [i \in 1..Len(its) |-> Descendant(its[i].element, i - 1, "on")]

\* newItems.map((item, index) => ({ ...item, index }))
Reindex(its) == [i \in 1..Len(its) |-> [its[i] EXCEPT !.index = i - 1]]

\* ---------------------------------------------------------------------
\* DescendantProvider.registerDescendant: the updater handed to set().

RegisterUpdater(its, element, explicitIndex, rest) ==
  IF explicitIndex # Null
  THEN SortByIndex(Append(its, Descendant(element, explicitIndex, rest)))
  ELSE Reindex(
         IF Len(its) = 0
         THEN <<Descendant(element, 0, rest)>>
         ELSE IF \E i \in 1..Len(its) : its[i].element = element
         THEN its
         ELSE LET index == FindIndexPreceding(its, element)
                  newItem == Descendant(element, index, rest)
              IN IF index = -1
                 THEN Append(its, newItem)
                 ELSE SubSeq(its, 1, index) \o <<newItem>>
                        \o SubSeq(its, index + 1, Len(its)))

\* The call without its `if (!element) return;` guard.
RegisterResultUnguarded(its, element, explicitIndex, rest) ==
  RegisterUpdater(its, element, explicitIndex, rest)

\* registerDescendant({ element, index: explicitIndex, ...rest }): the state
\* after the call (`if (!element) return;` leaves it alone).
RegisterResult(its, element, explicitIndex, rest) ==
  IF element = Null THEN its
  ELSE RegisterUpdater(its, element, explicitIndex, rest)

\* The filter followed by a reindex pass.
UnregisterUpdaterReindexing(its, element) ==
  Reindex(SelectSeq(its, LAMBDA item : element # item.element))

\* items.filter(item => element !== item.element)
UnregisterUpdater(its, element) ==
  SelectSeq(its, LAMBDA item : element # item.element)

\* unregisterDescendant(element): the state after the call.
UnregisterResult(its, element) ==
  IF element = Null THEN its ELSE UnregisterUpdater(its, element)

registerDescendant(element, explicitIndex, rest) ==
  /\ \/ Len(items) < MaxLen
     \/ element = Null
     \/ explicitIndex = Null /\ \E i \in 1..Len(items) : items[i].element = element
  /\ items' = RegisterResult(items, element, explicitIndex, rest)
  /\ lastCall' = [op |-> "register", element |-> element,
                  index |-> explicitIndex, rest |-> rest]
  /\ UNCHANGED <<hookVars, nav>>

unregisterDescendant(element) ==
  /\ items' = UnregisterResult(items, element)
  /\ lastCall' = [op |-> "unregister", element |-> element,
                  index |-> Null, rest |-> "on"]
  /\ UNCHANGED <<hookVars, nav>>

\* A component that is not mounted: no DOM node, `element` state null, no
\* pending state update, no layout effect run, no index returned.
NoComp ==
  [mounted |-> FALSE, dom |-> FALSE, element |-> Null, refSet |-> Null,
   force |-> FALSE, eff |-> <<>>, index |-> -1]

NoCall == [op |-> "init", element |-> Null, index |-> Null, rest |-> "on"]

\* useDescendantsInit: React.useState([]); nothing is mounted.
InitProvider ==
  /\ items = <<>>
  /\ lastCall = NoCall
  /\ queue = <<>>
  /\ tree = {}
  /\ comps = [c \in Elements |-> NoComp]
  /\ phase = "idle"
  /\ nav = <<>>

Init ==
  /\ InitProvider
  /\ props = [c \in Elements |-> [indexProp |-> Null, rest |-> "on"]]

\* Calls of the two context functions. The payload varies over the
\* implicit registrations; an explicit index comes with the payload "on".
Next ==
  \/ \E element \in Elements, rest \in Payloads :
       registerDescendant(element, Null, rest)
  \/ \E element \in Elements, explicitIndex \in ExplicitIndexes :
       registerDescendant(element, explicitIndex, "on")
  \/ \E explicitIndex \in {Null, -1} :
       registerDescendant(Null, explicitIndex, "on")
  \/ \E element \in Elements \cup {Null} : unregisterDescendant(element)

vars == <<items, lastCall, queue, props, tree, comps, phase, nav>>

Spec == Init /\ [][Next]_vars

\* ---------------------------------------------------------------------
\* useDescendant, driven by React: a render applies the queued updaters
\* and runs every mounted descendant's hook body; the commit that follows
\* runs the layout-effect cleanups, attaches the refs and runs the layout
\* effects, which queue updaters for the next render.

\* The index prop with React's `||` in place of `??`.
UseDescendantIndexFalsy(indexProp, descendants, element) ==
  IF indexProp # Null /\ indexProp # 0
  THEN indexProp
  ELSE FindIndexOfElement(descendants, element)

\* let index = indexProp ?? descendants.findIndex(
\*   item => item.element === descendant.element)
UseDescendantIndex(indexProp, descendants, element) ==
  IF indexProp # Null
  THEN indexProp
  ELSE FindIndexOfElement(descendants, element)

\* One queued updater applied to the collection.
ApplyUpdate(its, u) ==
  IF u.op = "register"
  THEN RegisterUpdater(its, u.element, u.index, u.rest)
  ELSE UnregisterUpdater(its, u.element)

\* Every queued update computed from the rendered collection and written
\* back as a value: the last write wins.
ApplyQueueToSnapshot(its, q) ==
  IF q = <<>> THEN its ELSE ApplyUpdate(its, q[Len(q)])

\* The queued updaters applied in the order they were queued.
RECURSIVE ApplyQueue(_, _)
ApplyQueue(its, q) ==
  IF q = <<>> THEN its
  ELSE ApplyQueue(ApplyUpdate(its, Head(q)), Tail(q))

\* registerDescendant called from a layout effect: queues the updater
\* unless the element is null.
QueueRegister(q, element, index, rest) ==
  IF element = Null THEN q
  ELSE Append(q, [op |-> "register", element |-> element,
                  index |-> index, rest |-> rest])

\* A cleanup that does not unregister.
QueueUnregisterSkipped(q, element) == q

\* unregisterDescendant called from a layout-effect cleanup.
QueueUnregister(q, element) ==
  IF element = Null THEN q
  ELSE Append(q, [op |-> "unregister", element |-> element,
                  index |-> Null, rest |-> "on"])

\* The component whose DOM node is at document position i: components are
\* siblings, so React visits them in document order.
CompAt(i) == CHOOSE c \in Elements : DocPos(c) = i

\* A descendant object built anew on every render: the dependency list
\* differs on every commit.
DepsChangedUnmemoized(c) == TRUE

\* A dependency list without the index.
DepsChangedIgnoringIndex(c) ==
  \/ comps[c].eff = <<>>
  \/ comps[c].eff[1].element # comps[c].element

\* The layout effect's dependency list [descendant, index, ...] differs
\* from the one of the effect that ran last (or none ran yet).
DepsChanged(c) ==
  \/ comps[c].eff = <<>>
  \/ comps[c].eff[1].element # comps[c].element
  \/ comps[c].eff[1].index # comps[c].index

\* The effect of component c is torn down in this commit: the component
\* is unmounted, or its dependencies changed.
RunsCleanup(c) ==
  /\ comps[c].eff # <<>>
  /\ c \notin tree \/ DepsChanged(c)

\* The effect of component c runs in this commit.
RunsEffect(c) == c \in tree /\ DepsChanged(c)

\* return () => { unregisterDescendant(descendant.element) }, for the
\* components at document positions i..NumElems.
RECURSIVE QueueCleanups(_, _)
QueueCleanups(q, i) ==
  IF i > NumElems THEN q
  ELSE LET c == CompAt(i)
       IN QueueCleanups(
            IF RunsCleanup(c)
            THEN QueueUnregister(q, comps[c].eff[1].element)
            ELSE q,
            i + 1)

\* registerDescendant({ ...descendant, index }), for the components at
\* document positions i..NumElems.
RECURSIVE QueueEffects(_, _)
QueueEffects(q, i) ==
  IF i > NumElems THEN q
  ELSE LET c == CompAt(i)
       IN QueueEffects(
            IF RunsEffect(c)
            THEN QueueRegister(q, comps[c].element, comps[c].index,
                               props[c].rest)
            ELSE q,
            i + 1)

\* Work React still has to do: the parent's tree differs from the mounted
\* components, an updater is queued, or a component has a pending state
\* update (elementSet from the ref callback, forceUpdate).
Dirty ==
  \/ queue # <<>>
  \/ \E c \in Elements :
       \/ (c \in tree) # comps[c].mounted
       \/ comps[c].refSet # Null
       \/ comps[c].force

Quiescent == phase = "idle" /\ ~Dirty

\* An event handler of the parent may run: React has flushed the updates
\* of the components and of the provider (they are scheduled from layout
\* effects, hence flushed synchronously).
MayChangeTree ==
  /\ phase = "idle"
  /\ queue = <<>>
  /\ \A c \in Elements : comps[c].refSet = Null /\ ~comps[c].force

\* The parent starts rendering descendant component c.
Mount(c) ==
  /\ MayChangeTree
  /\ c \notin tree
  /\ tree' = tree \cup {c}
  /\ UNCHANGED <<items, lastCall, queue, props, comps, phase, nav>>

\* The parent stops rendering descendant component c.
Unmount(c) ==
  /\ MayChangeTree
  /\ c \in tree
  /\ tree' = tree \ {c}
  /\ UNCHANGED <<items, lastCall, queue, props, comps, phase, nav>>

\* elementSet(null) pending: the ref callback was called with null.
Detached == -3

\* The value the `element` state takes from a pending elementSet.
RefValue(v) == IF v = Detached THEN Null ELSE v

\* A second DOM node that descendant component 1 may render instead of
\* its first one.
AltHandle == NumElems + 1

\* handleRefSet(refValue): React detaches the DOM node of a rendered
\* descendant (v = Detached) or attaches another node to it; the `element`
\* state update is pending until the next render.
SetRef(c, v) ==
  /\ MayChangeTree
  /\ c \in tree
  /\ comps[c].mounted
  /\ comps[c].dom
  /\ RefValue(v) # comps[c].element
  /\ comps' = [comps EXCEPT ![c].refSet = v]
  /\ UNCHANGED <<items, lastCall, queue, props, tree, phase, nav>>

\* A render pass: the provider's state is the queued updaters applied to
\* the current one; every rendered descendant reads its `element` state
\* and computes the index useDescendant returns.
Render ==
  /\ phase = "idle"
  /\ Dirty
  /\ items' = ApplyQueue(items, queue)
  /\ queue' = <<>>
  /\ comps' =
       [c \in Elements |->
          IF c \notin tree THEN comps[c]
          ELSE LET element == IF comps[c].refSet # Null
                              THEN RefValue(comps[c].refSet)
                              ELSE comps[c].element
               IN [comps[c] EXCEPT
                     !.mounted = TRUE,
                     !.element = element,
                     !.refSet = Null,
                     !.force = FALSE,
                     !.index = UseDescendantIndex(props[c].indexProp,
                                                  items', element)]]
  /\ phase' = "commit"
  /\ UNCHANGED <<lastCall, props, tree, nav>>

\* The commit of that render: cleanups of the effects that are torn down,
\* then the ref callbacks of the new DOM nodes and the layout effects.
Commit ==
  /\ phase = "commit"
  /\ queue' = QueueEffects(QueueCleanups(queue, 1), 1)
  /\ comps' =
       [c \in Elements |->
          IF c \notin tree THEN NoComp
          ELSE [comps[c] EXCEPT
                  !.dom = TRUE,
                  !.refSet = IF comps[c].dom THEN Null ELSE c,
                  !.force = RunsEffect(c) /\ comps[c].element = Null,
                  !.eff = IF RunsEffect(c)
                          THEN <<[element |-> comps[c].element,
                                  index |-> comps[c].index]>>
                          ELSE comps[c].eff]]
  /\ phase' = "idle"
  /\ UNCHANGED <<items, lastCall, props, tree, nav>>

\* Every descendant component has a fixed indexProp (possibly none) and a
\* fixed payload.
InitHook ==
  /\ InitProvider
  /\ props \in [Elements ->
                  [indexProp : PinnedIndexes \cup {Null}, rest : Payloads]]

NextHook ==
  \/ \E c \in Elements : Mount(c)
  \/ \E c \in Elements : Unmount(c)
  \/ Render
  \/ Commit

SpecHook == InitHook /\ [][NextHook]_vars

\* The same provider with every descendant carrying the same payload: the
\* hook passes the payload on and never reads it.
InitHookOnePayload ==
  /\ InitProvider
  /\ props \in [Elements ->
                  [indexProp : PinnedIndexes \cup {Null}, rest : {"on"}]]

SpecHookOnePayload == InitHookOnePayload /\ [][NextHook]_vars

\* Render can take a step exactly when React is idle with work to do (a
\* render always moves `phase` to "commit").
RenderEnabled == phase = "idle" /\ Dirty

\* React runs a scheduled render and the commit of a render: neither is
\* postponed forever. The condition on Render is weak fairness,
\* WF_vars(Render), with its enabling condition written out.
SpecHookFair ==
  /\ InitHookOnePayload
  /\ [][NextHook]_vars
  /\ ([]<>~RenderEnabled \/ []<><<Render>>_vars)
  /\ WF_vars(Commit)

\* Descendant 2 has a fixed indexProp (possibly none), the others have
\* none; every descendant carries the same payload.
InitHookRef ==
  /\ InitProvider
  /\ props \in [Elements ->
                  [indexProp : PinnedIndexes \cup {Null}, rest : {"on"}]]
  /\ \A c \in Elements \ {2} : props[c].indexProp = Null

\* The provider with a descendant whose DOM node is detached, re-attached
\* and replaced while it stays mounted.
NextHookRef ==
  \/ NextHook
  \/ \E v \in {Detached, 1, AltHandle} : SetRef(1, v)

SpecHookRef ==
  /\ InitHookRef
  /\ [][NextHookRef]_vars
  /\ ([]<>~RenderEnabled \/ []<><<Render>>_vars)
  /\ WF_vars(Commit)

\* ---------------------------------------------------------------------
\* useDescendantKeyDown: handleKeyDown(event) under the hook's options.

NavigationKeys ==
  {"ArrowDown", "ArrowUp", "ArrowLeft", "ArrowRight",
   "PageUp", "PageDown", "Home", "End"}

\* Key presses: every navigation key and one other key, and the keys with
\* the ctrl modifier down where the handler reads it.
Events ==
  {[key |-> k, ctrlKey |-> FALSE] : k \in NavigationKeys \cup {"Enter"}}
    \cup {[key |-> k, ctrlKey |-> TRUE] : k \in {"PageUp", "PageDown"}}

\* currentIndex: null, -1 (no selection yet), the index of a record, or one
\* past every index.
CurrentIndexes == {Null} \cup (-1 .. NumElems)

\* filter: none, or a predicate on the record's payload.
Filters == {"none", "enabledOnly"}

\* The options: every combination with `key` 'index'; and, with the other
\* documented value of `key` and with a `key` that names no field of a
\* record, every current index with and without rotate (orientation
\* 'vertical', no rtl, no filter).
Options ==
  [currentIndex : CurrentIndexes,
   filter : Filters,
   key : {"index"},
   orientation : {"vertical", "horizontal", "both"},
   rotate : BOOLEAN,
   rtl : BOOLEAN]
    \cup [currentIndex : CurrentIndexes,
          filter : {"none"},
          key : {"option", "record"},
          orientation : {"vertical"},
          rotate : BOOLEAN,
          rtl : {FALSE}]

\* The filter option not applied.
SelectableDescendantsUnfiltered(descendants, filter) == descendants

\* filter ? descendants.filter(filter) : descendants
SelectableDescendants(descendants, filter) ==
  IF filter = "none" THEN descendants
  ELSE SelectSeq(descendants, LAMBDA d : d.rest = "on")

\* array[k] for a 0-based k: <<the element>>, or <<>> for undefined.
At(array, k) ==
  IF k >= 0 /\ k < Len(array) THEN <<array[k + 1]>> ELSE <<>>

\* JavaScript's %: the result has the sign of the dividend.
JsRem(a, n) == IF a >= 0 THEN a % n ELSE 0 - ((0 - a) % n)

\* selectableDescendants.findIndex(d => d.index === currentIndex)
SelectableIndex(selectable, currentIndex) ==
  LET hit(i) == currentIndex # Null /\ selectable[i].index = currentIndex
  IN IF \E i \in 1..Len(selectable) : hit(i)
     THEN (CHOOSE i \in 1..Len(selectable) :
             hit(i) /\ \A j \in 1..(i - 1) : ~hit(j)) - 1
     ELSE -1

GetFirstOption(selectable) == At(selectable, 0)

GetLastOption(selectable) == At(selectable, Len(selectable) - 1)

\* const index = currentIndex ?? -1
IndexOrMinusOne(currentIndex) ==
  IF currentIndex = Null THEN -1 ELSE currentIndex

\* getNextOption with `rotate` read the wrong way round.
GetNextOptionRotateFlipped(selectable, currentIndex, rotate) ==
  LET selectableIndex == SelectableIndex(selectable, currentIndex)
      atBottom == IndexOrMinusOne(currentIndex) =
                    GetLastOption(selectable)[1].index
  IN IF atBottom
     THEN IF ~rotate THEN GetFirstOption(selectable)
          ELSE At(selectable, selectableIndex)
     ELSE At(selectable, JsRem(selectableIndex + 1, Len(selectable)))

\* getNextOption (selectable is not empty)
GetNextOption(selectable, currentIndex, rotate) ==
  LET selectableIndex == SelectableIndex(selectable, currentIndex)
      atBottom == IndexOrMinusOne(currentIndex) =
                    GetLastOption(selectable)[1].index
  IN IF atBottom
     THEN IF rotate THEN GetFirstOption(selectable)
          ELSE At(selectable, selectableIndex)
     ELSE At(selectable, JsRem(selectableIndex + 1, Len(selectable)))

\* getPreviousOption stepping back without wrapping around.
GetPreviousOptionNoWrap(selectable, currentIndex, rotate) ==
  LET selectableIndex == SelectableIndex(selectable, currentIndex)
      atTop == IndexOrMinusOne(currentIndex) =
                 GetFirstOption(selectable)[1].index
  IN IF atTop
     THEN IF rotate THEN GetLastOption(selectable)
          ELSE At(selectable, selectableIndex)
     ELSE At(selectable, JsRem(selectableIndex - 1, Len(selectable)))

\* getPreviousOption (selectable is not empty)
GetPreviousOption(selectable, currentIndex, rotate) ==
  LET selectableIndex == SelectableIndex(selectable, currentIndex)
      atTop == IndexOrMinusOne(currentIndex) =
                 GetFirstOption(selectable)[1].index
  IN IF atTop
     THEN IF rotate THEN GetLastOption(selectable)
          ELSE At(selectable, selectableIndex)
     ELSE At(selectable,
             JsRem(selectableIndex - 1 + Len(selectable), Len(selectable)))

\* An ignored key press that still suppresses the default action.
IgnoredPreventingDefault ==
  [log |-> <<"preventDefault">>, chosen |-> <<>>, argIndex |-> Null,
   argOption |-> <<>>, threw |-> FALSE]

\* The outcome of a key press the handler ignores.
Ignored ==
  [log |-> <<>>, chosen |-> <<>>, argIndex |-> Null, argOption |-> <<>>,
   threw |-> FALSE]

\* The callback called before the default action is suppressed.
SelectCallbackFirst(chosen, key) ==
  [log |-> <<"callback", "preventDefault">>, chosen |-> chosen,
   argIndex |-> IF key = "option" \/ chosen = <<>> THEN Null
                ELSE chosen[1].index,
   argOption |-> IF key = "option" THEN chosen ELSE <<>>,
   threw |-> FALSE]

\* The callback given the index field whatever `key` is.
SelectIndexOnly(chosen, key) ==
  IF chosen = <<>>
  THEN [log |-> <<"preventDefault">>, chosen |-> chosen,
        argIndex |-> Null, argOption |-> <<>>, threw |-> TRUE]
  ELSE [log |-> <<"preventDefault", "callback">>, chosen |-> chosen,
        argIndex |-> chosen[1].index, argOption |-> <<>>, threw |-> FALSE]

\* event.preventDefault(); callback(key === 'option' ? chosen : chosen[key]).
\* The argument is the record (argOption), its index (argIndex), or
\* undefined (neither) when the record has no field named by `key`.
\* Reading a property of undefined throws a TypeError.
Select(chosen, key) ==
  IF key = "option"
  THEN [log |-> <<"preventDefault", "callback">>, chosen |-> chosen,
        argIndex |-> Null, argOption |-> chosen, threw |-> FALSE]
  ELSE IF chosen = <<>>
  THEN [log |-> <<"preventDefault">>, chosen |-> chosen,
        argIndex |-> Null, argOption |-> <<>>, threw |-> TRUE]
  ELSE [log |-> <<"preventDefault", "callback">>, chosen |-> chosen,
        argIndex |-> IF key = "index" THEN chosen[1].index ELSE Null,
        argOption |-> <<>>, threw |-> FALSE]

\* orientation === 'vertical' || orientation === 'both'
ActsVertically(orientation) ==
  orientation = "vertical" \/ orientation = "both"

\* The horizontal arrow keys handled under every orientation.
ActsHorizontallyUngated(orientation) == TRUE

\* orientation === 'horizontal' || orientation === 'both'
ActsHorizontally(orientation) ==
  orientation = "horizontal" \/ orientation = "both"

\* ArrowLeft with `rtl` not consulted.
NextOrPrevIgnoringRtl(rtl, next, prev) == prev

\* ArrowLeft: (rtl ? getNextOption : getPreviousOption)()
NextOrPrev(rtl, next, prev) == IF rtl THEN next ELSE prev

\* ArrowRight: (rtl ? getPreviousOption : getNextOption)()
PrevOrNext(rtl, prev, next) == IF rtl THEN prev ELSE next

\* PageUp with the modifier not consulted.
PrevOrFirstIgnoringCtrl(ctrlKey, prev, first) == first

\* PageUp: (event.ctrlKey ? getPreviousOption : getFirstOption)()
PrevOrFirst(ctrlKey, prev, first) == IF ctrlKey THEN prev ELSE first

\* PageDown: (event.ctrlKey ? getNextOption : getLastOption)()
NextOrLast(ctrlKey, next, last) == IF ctrlKey THEN next ELSE last

\* handleKeyDown(event): what the handler does with the collection
\* `descendants` under the options `o`.
HandleKeyDown(descendants, o, event) ==
  LET selectable == SelectableDescendants(descendants, o.filter)
      next == GetNextOption(selectable, o.currentIndex, o.rotate)
      prev == GetPreviousOption(selectable, o.currentIndex, o.rotate)
      first == GetFirstOption(selectable)
      last == GetLastOption(selectable)
  IN IF event.key \notin NavigationKeys THEN Ignored
     ELSE IF Len(selectable) = 0 THEN Ignored
     ELSE CASE event.key = "ArrowDown" ->
                 IF ActsVertically(o.orientation)
                 THEN Select(next, o.key) ELSE Ignored
            [] event.key = "ArrowUp" ->
                 IF ActsVertically(o.orientation)
                 THEN Select(prev, o.key) ELSE Ignored
            [] event.key = "ArrowLeft" ->
                 IF ActsHorizontally(o.orientation)
                 THEN Select(NextOrPrev(o.rtl, next, prev), o.key)
                 ELSE Ignored
            [] event.key = "ArrowRight" ->
                 IF ActsHorizontally(o.orientation)
                 THEN Select(PrevOrNext(o.rtl, prev, next), o.key)
                 ELSE Ignored
            [] event.key = "PageUp" ->
                 Select(PrevOrFirst(event.ctrlKey, prev, first), o.key)
            [] event.key = "Home" -> Select(first, o.key)
            [] event.key = "PageDown" ->
                 Select(NextOrLast(event.ctrlKey, next, last), o.key)
            [] event.key = "End" -> Select(last, o.key)

\* The placeholder for the event while no key has been pressed.
NoEvent == [key |-> "none", ctrlKey |-> FALSE]

\* A render calls useDescendantKeyDown(context, options): the handler it
\* returns reads the rendered collection and these options.
UseDescendantKeyDown ==
  /\ nav = <<>>
  /\ \E o \in Options :
       nav' = <<[handled |-> FALSE, event |-> NoEvent, options |-> o,
                 out |-> Ignored]>>
  /\ lastCall' = [op |-> "useDescendantKeyDown", element |-> Null,
                  index |-> Null, rest |-> "on"]
  /\ UNCHANGED <<items, hookVars>>

\* A key press reaches the handler returned by useDescendantKeyDown.
KeyDown ==
  /\ nav # <<>>
  /\ ~nav[1].handled
  /\ \E event \in Events :
       nav' = <<[handled |-> TRUE, event |-> event,
                 options |-> nav[1].options,
                 out |-> HandleKeyDown(items, nav[1].options, event)]>>
  /\ UNCHANGED <<items, lastCall, hookVars>>

\* The handler has returned.
KeyDownReturns ==
  /\ nav # <<>>
  /\ nav[1].handled
  /\ nav' = <<>>
  /\ UNCHANGED <<items, lastCall, hookVars>>

\* The collection the navigator reads changes between key presses:
\* descendants register and unregister.  A descendant that pins its index
\* registers when it is not in the collection (the layout effect's cleanup
\* has unregistered it before the effect registers again).
NavRegister(element, explicitIndex, rest) ==
  /\ nav = <<>>
  /\ explicitIndex # Null =>
       \A i \in 1..Len(items) : items[i].element # element
  /\ registerDescendant(element, explicitIndex, rest)

NavUnregister(element) ==
  /\ nav = <<>>
  /\ unregisterDescendant(element)

NextNav ==
  \/ \E element \in Elements, rest \in Payloads :
       NavRegister(element, Null, rest)
  \/ \E element \in {1} : NavRegister(element, 0, "on")
  \/ \E element \in Elements : NavUnregister(element)
  \/ UseDescendantKeyDown
  \/ KeyDown
  \/ KeyDownReturns

SpecNav == Init /\ [][NextNav]_vars

\* A specification of registrations without explicit index only, from the
\* empty collection.
NextImplicit ==
  \E element \in Elements, rest \in Payloads :
    registerDescendant(element, Null, rest)

SpecImplicit == Init /\ [][NextImplicit]_vars

\* ---------------------------------------------------------------------
\* Properties of the registry.

Indexed(its) == \A i \in 1..Len(its) : its[i].index = i - 1

ElementsOf(its) == {its[i].element : i \in 1..Len(its)}

ElementSeq(its) == [i \in 1..Len(its) |-> its[i].element]

PositionsOf(its, element) == {i \in 1..Len(its) : its[i].element = element}

ImplicitRegister(call) ==
  call.op = "register" /\ call.element # Null /\ call.index = Null

\* C1 (as stated): after every registerDescendant / unregisterDescendant
\* call, collection[i].index === i for every position i.
C1_IndexedAfterEveryCall == Indexed(items)

\* C1 (amended): after every registerDescendant call without an explicit
\* index and with an element, collection[i].index === i for every position i.
C1_IndexedAfterImplicitRegister == ImplicitRegister(lastCall) => Indexed(items)

C1_Witness ==
  /\ ImplicitRegister(lastCall)
  /\ Len(items) = MaxLen
  /\ lastCall.element = items[2].element

\* C2: registering distinct elements one at a time without explicit index,
\* in any call order from the empty collection, lists them in document
\* order with indices 0..n-1; a registration of a new element puts it
\* immediately before the first record it precedes, or last if there is none.
C2_DocumentOrder ==
  /\ [](/\ Indexed(items)
        /\ \A i, j \in 1..Len(items) :
             i < j => DocPos(items[i].element) < DocPos(items[j].element))
  /\ [][\A e \in Elements :
          (lastCall'.element = e /\ e \notin ElementsOf(items)) =>
            \E k \in 1..Len(items') :
              /\ items'[k].element = e
              /\ items'[k].rest = lastCall'.rest
              /\ ElementSeq(items) =
                   ElementSeq(SubSeq(items', 1, k - 1) \o
                              SubSeq(items', k + 1, Len(items')))
              /\ \A j \in 1..(k - 1) :
                   ~(DocPos(e) < DocPos(items[j].element))
              /\ k <= Len(items) => DocPos(e) < DocPos(items[k].element)]_vars

C2_Witness ==
  /\ Len(items) = NumElems
  /\ ImplicitRegister(lastCall)
  /\ lastCall.element = items[1].element
  /\ lastCall.rest = items[1].rest
  /\ items[2].rest # lastCall.rest
  /\ items[3].rest # lastCall.rest

\* C4: no two records of the collection have the same element, in every
\* state the registry calls reach.
C4_NoDuplicateElements ==
  \A i, j \in 1..Len(items) : items[i].element = items[j].element => i = j

\* C5: registering an element that is already in the collection leaves the
\* length and the order of the elements as they were.
C5_ReRegisterIdempotent ==
  [][(lastCall'.op = "register" /\ lastCall'.element \in ElementsOf(items))
       => ElementSeq(items') = ElementSeq(items)]_vars

\* C6 (as stated): after unregisterDescendant removes the record at position
\* k of an indexed collection of n records, the remaining records have the
\* indices 0..n-2 without gaps (the records after k moved down by one).
C6_UnregisterClosesGap ==
  [][(/\ lastCall'.op = "unregister"
      /\ Indexed(items)
      /\ lastCall'.element \in ElementsOf(items))
       => Indexed(items')]_vars

\* C6 (amended): after unregisterDescendant removes the record at position k
\* of an indexed collection of n records, the records before k keep position
\* and index, and every record that was at a position j > k is at position
\* j-1 and still has the index j: the indices are not reassigned.
C6_UnregisterKeepsIndices ==
  [][\A k \in 1..Len(items) :
       (/\ lastCall'.op = "unregister"
        /\ Indexed(items)
        /\ PositionsOf(items, lastCall'.element) = {k})
         => /\ Len(items') = Len(items) - 1
            /\ \A j \in 1..(k - 1) : items'[j] = items[j]
            /\ \A j \in (k + 1)..Len(items) :
                 items'[j - 1] = items[j] /\ items'[j - 1].index = j - 1]_vars

C6_Witness ==
  /\ lastCall.op = "unregister"
  /\ Len(items) = 2
  /\ items[1].index = 0
  /\ items[2].index = 2
  /\ lastCall.element \notin ElementsOf(items)

\* C7: registerDescendant with a null element, unregisterDescendant with
\* null and unregisterDescendant of an element that is not registered leave
\* the sequence of records as it was; no record with a null element is ever
\* in the collection.
C7_AbnormalInputsAreNoOps ==
  /\ [](Null \notin ElementsOf(items))
  /\ [][(\/ lastCall'.element = Null
         \/ /\ lastCall'.op = "unregister"
            /\ lastCall'.element \notin ElementsOf(items))
          => items' = items]_vars

C7_Witness ==
  /\ lastCall.op = "register"
  /\ lastCall.element = Null
  /\ lastCall.index # Null
  /\ Len(items) = 2

\* The number of records of `its` with this element and this payload.
CountOf(its, element, rest) ==
  Cardinality({i \in 1..Len(its) :
                 its[i].element = element /\ its[i].rest = rest})

\* C17: a registerDescendant or unregisterDescendant call for element e
\* leaves every record of another element in the collection with its
\* element and its payload (only its index and position may change), and a
\* record that registerDescendant adds carries e and the payload exactly as
\* passed.
C17_Frame ==
  [][lastCall'.op \in {"register", "unregister"} =>
       /\ \A x \in Elements \ {lastCall'.element}, rest \in Payloads :
            CountOf(items', x, rest) = CountOf(items, x, rest)
       /\ Len(items') > Len(items) =>
            /\ lastCall'.op = "register"
            /\ Len(items') = Len(items) + 1
            /\ \A rest \in Payloads :
                 CountOf(items', lastCall'.element, rest) =
                   CountOf(items, lastCall'.element, rest) +
                     (IF rest = lastCall'.rest THEN 1 ELSE 0)
       /\ (/\ lastCall'.op = "register"
           /\ lastCall'.element # Null
           /\ lastCall'.element \notin ElementsOf(items))
            => Len(items') > Len(items)]_vars

\* A record with payload "on" registered between two records with payload
\* "off", which both keep element and payload.
C17_Witness ==
  /\ lastCall.op = "register"
  /\ lastCall.index = Null
  /\ lastCall.rest = "on"
  /\ Len(items) = 3
  /\ items[2].element = lastCall.element
  /\ items[2].rest = "on"
  /\ items[1].rest = "off"
  /\ items[3].rest = "off"
  /\ Indexed(items)

SortedByIndex(its) ==
  \A i, j \in 1..Len(its) : i < j => its[i].index <= its[j].index

\* The records of `its` that carry the index v, in their order.
WithIndex(its, v) == SelectSeq(its, LAMBDA r : r.index = v)

\* `its` without the record at position k.
RemoveAt(its, k) == SubSeq(its, 1, k - 1) \o SubSeq(its, k + 1, Len(its))

\* C18: after registerDescendant with an explicit index the whole collection
\* is in ascending order of index, the records that were there keep their
\* relative order among those of equal index, and the new record stands
\* after every existing record with its index.
C18_StableSortByIndex ==
  [][(/\ lastCall'.op = "register"
      /\ lastCall'.index # Null
      /\ lastCall'.element # Null)
       => /\ SortedByIndex(items')
          /\ \E k \in 1..Len(items') :
               /\ items'[k] = Descendant(lastCall'.element, lastCall'.index,
                                         lastCall'.rest)
               /\ \A j \in (k + 1)..Len(items') :
                    items'[j].index > lastCall'.index
               /\ Len(items') = Len(items) + 1
               /\ \A v \in {items[i].index : i \in 1..Len(items)} :
                    WithIndex(RemoveAt(items', k), v) = WithIndex(items, v)]_vars

\* A record registered with explicit index 0 stands after the record that
\* already had index 0 and before a record with a greater index.
C18_Witness ==
  /\ lastCall.op = "register"
  /\ lastCall.index = 0
  /\ Len(items) = 3
  /\ items[1].index = 0
  /\ items[1].element # lastCall.element
  /\ items[2] = Descendant(lastCall.element, 0, lastCall.rest)
  /\ items[3].index > 0

\* ---------------------------------------------------------------------
\* Properties of useDescendantKeyDown.

\* A key press has been handled; its record is KeyPress.
KeyPressed == nav # <<>> /\ nav[1].handled

KeyPress == nav[1]

\* The selectable subset the handled key press worked on.
NavSelectable == SelectableDescendants(items, KeyPress.options.filter)

\* The key presses that ask for 'next' and for 'previous' with the
\* vertical arrow keys.
AsksNext ==
  /\ KeyPressed
  /\ KeyPress.event.key = "ArrowDown"
  /\ KeyPress.options.orientation # "horizontal"
  /\ Len(NavSelectable) > 0

AsksPrevious ==
  /\ KeyPressed
  /\ KeyPress.event.key = "ArrowUp"
  /\ KeyPress.options.orientation # "horizontal"
  /\ Len(NavSelectable) > 0

First(seq) == seq[1]

Last(seq) == seq[Len(seq)]

\* The current index is the index field of no selectable record.
NotFound ==
  \/ KeyPress.options.currentIndex = Null
  \/ \A i \in 1..Len(NavSelectable) :
       NavSelectable[i].index # KeyPress.options.currentIndex

\* The first selectable record that carries the current index.
FirstWithCurrentIndex ==
  NavSelectable[SelectableIndex(NavSelectable, KeyPress.options.currentIndex) + 1]

DistinctIndexes(seq) ==
  \A i, j \in 1..Len(seq) : seq[i].index = seq[j].index => i = j

\* C9 as stated: with the current index that of the last selectable
\* record, 'next' selects the first selectable record if rotate is true
\* and the last one if rotate is false; with the current index that of the
\* first selectable record, 'previous' selects the last selectable record
\* if rotate is true and the first one if rotate is false.
C9_BoundaryKeepsLastRecord ==
  /\ (AsksNext /\ KeyPress.options.currentIndex = Last(NavSelectable).index)
       => KeyPress.out.chosen =
            IF KeyPress.options.rotate THEN <<First(NavSelectable)>>
            ELSE <<Last(NavSelectable)>>
  /\ (AsksPrevious /\ KeyPress.options.currentIndex = First(NavSelectable).index)
       => KeyPress.out.chosen =
            IF KeyPress.options.rotate THEN <<Last(NavSelectable)>>
            ELSE <<First(NavSelectable)>>

\* C9, amended: with the current index that of the last selectable record,
\* 'next' selects the first selectable record if rotate is true and, if
\* rotate is false, the first selectable record that carries the current
\* index, which is the last record when the selectable records' index
\* fields are pairwise distinct; with the current index that of the first
\* selectable record, 'previous' selects the last selectable record if
\* rotate is true and the first one if rotate is false.
C9_BoundaryByIndex ==
  /\ (AsksNext /\ KeyPress.options.currentIndex = Last(NavSelectable).index)
       => /\ KeyPress.out.chosen =
               IF KeyPress.options.rotate THEN <<First(NavSelectable)>>
               ELSE <<FirstWithCurrentIndex>>
          /\ DistinctIndexes(NavSelectable)
               => FirstWithCurrentIndex = Last(NavSelectable)
  /\ (AsksPrevious /\ KeyPress.options.currentIndex = First(NavSelectable).index)
       => KeyPress.out.chosen =
            IF KeyPress.options.rotate THEN <<Last(NavSelectable)>>
            ELSE <<First(NavSelectable)>>

\* 'next' without rotation at the last of two selectable records that
\* share an index (a third record is filtered out): the first is selected.
C9_Witness ==
  /\ AsksNext
  /\ ~KeyPress.options.rotate
  /\ Len(items) = 3
  /\ Len(NavSelectable) = 2
  /\ KeyPress.options.currentIndex = Last(NavSelectable).index
  /\ First(NavSelectable).index = Last(NavSelectable).index
  /\ KeyPress.out.chosen = <<First(NavSelectable)>>
  /\ KeyPress.out.log = <<"preventDefault", "callback">>

\* C10: with the current index null or that of no selectable record, and
\* at least one selectable record, 'next' selects the first selectable
\* record and, with rotate true, 'previous' selects the last one.
C10_NotFoundIsBeforeFirst ==
  /\ (AsksNext /\ NotFound)
       => KeyPress.out.chosen = <<First(NavSelectable)>>
  /\ (AsksPrevious /\ NotFound /\ KeyPress.options.rotate)
       => KeyPress.out.chosen = <<Last(NavSelectable)>>

\* The recorded key press left no trace: no preventDefault, no onSelect.
NoSideEffect ==
  /\ KeyPress.out.log = <<>>
  /\ ~KeyPress.out.threw

\* The recorded key press suppressed the default action and called
\* onSelect.
Selected == KeyPress.out.log = <<"preventDefault", "callback">>

\* C11: with a non-empty selectable subset, ArrowUp and ArrowDown cause a
\* selection (preventDefault and onSelect) exactly when orientation is
\* 'vertical' or 'both', ArrowLeft and ArrowRight exactly when it is
\* 'horizontal' or 'both', a gated-off arrow key causes neither
\* preventDefault nor onSelect, and Home, End, PageUp and PageDown cause a
\* selection under every orientation.
C11_OrientationGating ==
  (KeyPressed /\ Len(NavSelectable) > 0) =>
    /\ KeyPress.event.key \in {"ArrowUp", "ArrowDown"} =>
         IF KeyPress.options.orientation \in {"vertical", "both"}
         THEN Selected ELSE NoSideEffect
    /\ KeyPress.event.key \in {"ArrowLeft", "ArrowRight"} =>
         IF KeyPress.options.orientation \in {"horizontal", "both"}
         THEN Selected ELSE NoSideEffect
    /\ KeyPress.event.key \in {"Home", "End", "PageUp", "PageDown"} =>
         Selected

\* A horizontal arrow key gated off under the vertical orientation, with
\* something to select.
C11_Witness ==
  /\ KeyPressed
  /\ Len(NavSelectable) = 2
  /\ KeyPress.event.key = "ArrowRight"
  /\ KeyPress.options.orientation = "vertical"
  /\ NoSideEffect

\* The number of key presses in a sequence followed from one current
\* index.
MaxKeys == 2

\* The vertical key said to select as the horizontal key does.
VerticalFor(key, rtl) ==
  IF key = (IF rtl THEN "ArrowLeft" ELSE "ArrowRight")
  THEN "ArrowDown" ELSE "ArrowUp"

\* The selections of a sequence of key presses on one collection, each
\* selected record's index being the current index of the next key press.
RECURSIVE Selections(_, _, _)
Selections(keys, descendants, o) ==
  IF keys = <<>> THEN <<>>
  ELSE LET out == HandleKeyDown(descendants, o,
                                [key |-> Head(keys), ctrlKey |-> FALSE])
           selected == IF out.chosen = <<>> THEN o.currentIndex
                       ELSE out.chosen[1].index
       IN <<out.chosen>> \o
            Selections(Tail(keys), descendants,
                       [o EXCEPT !.currentIndex = selected])

\* C12: with orientation 'both', a horizontal arrow key has the outcome of
\* the vertical arrow key it stands for (ArrowRight as ArrowDown and
\* ArrowLeft as ArrowUp with rtl false, ArrowLeft as ArrowDown and
\* ArrowRight as ArrowUp with rtl true), and every sequence of horizontal
\* key presses that starts with it selects what the sequence of the
\* vertical keys selects, each selection being the next current index.
C12_HorizontalAsVertical ==
  (/\ KeyPressed
   /\ KeyPress.options.orientation = "both"
   /\ KeyPress.event.key \in {"ArrowLeft", "ArrowRight"})
  => /\ KeyPress.out =
          HandleKeyDown(items, KeyPress.options,
                        [key |-> VerticalFor(KeyPress.event.key,
                                             KeyPress.options.rtl),
                         ctrlKey |-> KeyPress.event.ctrlKey])
     /\ \A more \in [1..(MaxKeys - 1) -> {"ArrowLeft", "ArrowRight"}] :
          LET keys == <<KeyPress.event.key>> \o more
              vertical == [i \in 1..Len(keys) |->
                             VerticalFor(keys[i], KeyPress.options.rtl)]
          IN Selections(keys, items, KeyPress.options) =
               Selections(vertical, items, KeyPress.options)

\* ArrowLeft under rtl with orientation 'both' moves the selection within
\* a filtered subset of two of three records.
C12_Witness ==
  /\ KeyPressed
  /\ KeyPress.options.orientation = "both"
  /\ KeyPress.options.rtl
  /\ KeyPress.event.key = "ArrowLeft"
  /\ Len(items) = 3
  /\ Len(NavSelectable) = 2
  /\ KeyPress.options.currentIndex = First(NavSelectable).index
  /\ Selected
  /\ KeyPress.out.chosen = <<Last(NavSelectable)>>
  /\ First(NavSelectable) # Last(NavSelectable)

\* C13: with a non-empty selectable subset, Home selects the first and End
\* the last selectable record whatever the current index, rotate and rtl;
\* PageUp selects the first selectable record, or with the ctrl modifier
\* down what 'previous' selects; PageDown selects the last selectable
\* record, or with the ctrl modifier down what 'next' selects.
C13_JumpKeys ==
  (KeyPressed /\ Len(NavSelectable) > 0) =>
    LET next == GetNextOption(NavSelectable, KeyPress.options.currentIndex,
                              KeyPress.options.rotate)
        prev == GetPreviousOption(NavSelectable,
                                  KeyPress.options.currentIndex,
                                  KeyPress.options.rotate)
    IN /\ KeyPress.event.key = "Home" =>
            Selected /\ KeyPress.out.chosen = <<First(NavSelectable)>>
       /\ KeyPress.event.key = "End" =>
            Selected /\ KeyPress.out.chosen = <<Last(NavSelectable)>>
       /\ KeyPress.event.key = "PageUp" =>
            /\ Selected
            /\ KeyPress.out.chosen =
                 IF KeyPress.event.ctrlKey THEN prev
                 ELSE <<First(NavSelectable)>>
       /\ KeyPress.event.key = "PageDown" =>
            /\ Selected
            /\ KeyPress.out.chosen =
                 IF KeyPress.event.ctrlKey THEN next
                 ELSE <<Last(NavSelectable)>>

\* PageUp with ctrl down steps from the last of three selectable records
\* to the middle one, not to the first.
C13_Witness ==
  /\ KeyPressed
  /\ KeyPress.event.key = "PageUp"
  /\ KeyPress.event.ctrlKey
  /\ Len(NavSelectable) = 3
  /\ KeyPress.options.currentIndex = Last(NavSelectable).index
  /\ KeyPress.out.chosen = <<NavSelectable[2]>>
  /\ NavSelectable[2] # First(NavSelectable)

\* C14: a key press with a key other than ArrowUp, ArrowDown, ArrowLeft,
\* ArrowRight, PageUp, PageDown, Home and End, or on an empty selectable
\* subset, has no side effect: onSelect is not called and the default
\* action is not suppressed.
C14_IgnoredKeyPress ==
  (/\ KeyPressed
   /\ \/ KeyPress.event.key \notin
           {"ArrowUp", "ArrowDown", "ArrowLeft", "ArrowRight",
            "PageUp", "PageDown", "Home", "End"}
      \/ Len(NavSelectable) = 0)
  => NoSideEffect

\* Home on a collection of two records that the filter both excludes.
C14_Witness ==
  /\ KeyPressed
  /\ KeyPress.event.key = "Home"
  /\ Len(items) = 2
  /\ KeyPress.options.filter = "enabledOnly"
  /\ Len(NavSelectable) = 0
  /\ NoSideEffect

\* The recorded key press is one the handler acts on: a navigation key, a
\* non-empty selectable subset, and an orientation that does not gate the
\* key off.
HandledKeyPress ==
  /\ KeyPressed
  /\ Len(NavSelectable) > 0
  /\ \/ KeyPress.event.key \in {"PageUp", "PageDown", "Home", "End"}
     \/ /\ KeyPress.event.key \in {"ArrowUp", "ArrowDown"}
        /\ KeyPress.options.orientation \in {"vertical", "both"}
     \/ /\ KeyPress.event.key \in {"ArrowLeft", "ArrowRight"}
        /\ KeyPress.options.orientation \in {"horizontal", "both"}

C16_KeyRecordPassesRecord ==
  HandledKeyPress =>
    /\ KeyPress.options.key = "index" =>
         /\ KeyPress.out.argIndex = KeyPress.out.chosen[1].index
         /\ KeyPress.out.argOption = <<>>
    /\ KeyPress.options.key = "record" =>
         /\ KeyPress.out.argOption = KeyPress.out.chosen
         /\ KeyPress.out.argIndex = Null

\* C16, amended: onSelect is given the selected record's index field with
\* key 'index' and the whole selected record with key 'option'; any other
\* key names the field of the record that is passed, so with 'record',
\* which no record has, onSelect is given undefined.
C16_KeyOptionPassesRecord ==
  HandledKeyPress =>
    /\ Selected
    /\ KeyPress.out.chosen # <<>>
    /\ KeyPress.options.key = "index" =>
         /\ KeyPress.out.argIndex = KeyPress.out.chosen[1].index
         /\ KeyPress.out.argOption = <<>>
    /\ KeyPress.options.key = "option" =>
         /\ KeyPress.out.argOption = KeyPress.out.chosen
         /\ KeyPress.out.argIndex = Null
    /\ KeyPress.options.key = "record" =>
         /\ KeyPress.out.argOption = <<>>
         /\ KeyPress.out.argIndex = Null

\* ArrowDown with key 'option' hands the second of two records to onSelect.
C16_Witness ==
  /\ HandledKeyPress
  /\ KeyPress.event.key = "ArrowDown"
  /\ KeyPress.options.key = "option"
  /\ Len(NavSelectable) = 2
  /\ KeyPress.options.currentIndex = First(NavSelectable).index
  /\ KeyPress.out.argOption = <<Last(NavSelectable)>>
  /\ Last(NavSelectable) # First(NavSelectable)

\* The elements the queued updates register and do not unregister.
RegisteredOnly(q) ==
  {e \in Elements :
     /\ \E i \in 1..Len(q) : q[i].op = "register" /\ q[i].element = e
     /\ \A i \in 1..Len(q) : ~(q[i].op = "unregister" /\ q[i].element = e)}

\* The longest batch of queued updates whose every order is tried.
MaxBatch == 6

\* The queued updates in the order given by the permutation p.
Reordered(q, p) == [i \in 1..Len(q) |-> q[p[i]]]

\* C19: the updates that the descendants queue in one cycle, each computed
\* against the same rendered collection, are applied one after another to
\* the latest collection: in whatever order they are applied (every order
\* of a batch of up to MaxBatch updates), every element that the cycle
\* registers and does not unregister is in the collection afterwards, and
\* it is in the collection the next render reads.
C19_NoLostRegistration ==
  /\ [](Len(queue) <= MaxBatch =>
          \A p \in Permutations(1..Len(queue)) :
            RegisteredOnly(queue) \subseteq
              ElementsOf(ApplyQueue(items, Reordered(queue, p))))
  /\ [][(queue # <<>> /\ queue' = <<>>)
          => RegisteredOnly(queue) \subseteq ElementsOf(items')]_vars

\* Three descendants mounted in one cycle: three registrations are queued,
\* all computed against the empty collection.
C19_Witness ==
  /\ items = <<>>
  /\ Len(queue) = 3
  /\ \A i \in 1..3 : queue[i].op = "register"
  /\ Cardinality({queue[i].element : i \in 1..3}) = 3
  /\ Cardinality(RegisteredOnly(queue)) = 3

\* The record handed to onSelect is a selectable record, and not one the
\* filter excludes.
ChosenIsSelectable ==
  /\ KeyPress.out.chosen # <<>>
  /\ \E i \in 1..Len(NavSelectable) : KeyPress.out.chosen = <<NavSelectable[i]>>
  /\ KeyPress.options.filter = "enabledOnly" =>
       KeyPress.out.chosen[1].rest = "on"

\* The interior step from position k of the selectable subset.
StepsFrom(k) ==
  /\ (AsksNext /\ k < Len(NavSelectable))
       => KeyPress.out.chosen = <<NavSelectable[k + 1]>>
  /\ (AsksPrevious /\ k > 1)
       => KeyPress.out.chosen = <<NavSelectable[k - 1]>>

\* C20 as stated: with the current index that of the selectable record at
\* position k of the selectable subset, 'next' selects the selectable
\* record at position k+1 if k is not the last position and 'previous' the
\* one at position k-1 if k is not the first; a record that the filter
\* excludes is never selected.
C20_InteriorStep ==
  /\ KeyPressed =>
       \A k \in 1..Len(NavSelectable) :
         NavSelectable[k].index = KeyPress.options.currentIndex
           => StepsFrom(k)
  /\ HandledKeyPress => ChosenIsSelectable

\* C20, amended: let k be the position of the first selectable record that
\* carries the current index. 'next' selects the selectable record at
\* position k+1 unless the current index is also the index of the last
\* selectable record, and 'previous' the one at position k-1 unless the
\* current index is the index of the first selectable record. When the
\* index fields of the selectable records are pairwise distinct, this is
\* the step from the position of the current record, as stated. A record
\* that the filter excludes is never selected.
C20_InteriorStepFromFirstMatch ==
  /\ (KeyPressed /\ ~NotFound) =>
       LET k == SelectableIndex(NavSelectable,
                                KeyPress.options.currentIndex) + 1
       IN /\ (/\ AsksNext
              /\ KeyPress.options.currentIndex # Last(NavSelectable).index)
               => k < Len(NavSelectable) /\ StepsFrom(k)
          /\ (/\ AsksPrevious
              /\ KeyPress.options.currentIndex # First(NavSelectable).index)
               => k > 1 /\ StepsFrom(k)
  /\ ((AsksNext \/ AsksPrevious) /\ DistinctIndexes(NavSelectable)) =>
       \A k \in 1..Len(NavSelectable) :
         NavSelectable[k].index = KeyPress.options.currentIndex
           => StepsFrom(k)
  /\ HandledKeyPress => ChosenIsSelectable

\* 'next' from the first record steps over the record that the filter
\* excludes to the third.
C20_Witness ==
  /\ AsksNext
  /\ Len(items) = 3
  /\ KeyPress.options.filter = "enabledOnly"
  /\ items[2].rest = "off"
  /\ Len(NavSelectable) = 2
  /\ KeyPress.options.currentIndex = items[1].index
  /\ KeyPress.out.chosen = <<items[3]>>
  /\ items[3].index # items[1].index

\* C24: on a collection with collection[i].index = i, whatever the filter
\* (leaving at least one record), the current index (null, out of range or
\* that of a record the filter excludes), rotate, rtl, orientation and
\* handled key: the record chosen for onSelect is defined, it is a record
\* of the filtered collection, and the handler does not throw.
C24_ChosenIsSelectableRecord ==
  (HandledKeyPress /\ Indexed(items)) =>
    /\ ~KeyPress.out.threw
    /\ Len(KeyPress.out.chosen) = 1
    /\ \E i \in 1..Len(items) :
         /\ KeyPress.out.chosen[1] = items[i]
         /\ KeyPress.options.filter = "enabledOnly" => items[i].rest = "on"
    /\ KeyPress.options.key = "option" =>
         KeyPress.out.argOption = KeyPress.out.chosen
    /\ KeyPress.options.key = "index" =>
         KeyPress.out.argIndex = KeyPress.out.chosen[1].index

\* 'previous' with rotate off from the index of a record that the filter
\* excludes, in a collection of three records indexed by position: a
\* record that passes the filter is chosen.
C24_Witness ==
  /\ HandledKeyPress
  /\ Indexed(items)
  /\ Len(items) = 3
  /\ items[2].rest = "off"
  /\ Len(NavSelectable) = 2
  /\ KeyPress.options.filter = "enabledOnly"
  /\ KeyPress.options.currentIndex = 1
  /\ ~KeyPress.options.rotate
  /\ KeyPress.event.key = "ArrowUp"
  /\ Len(KeyPress.out.chosen) = 1
  /\ KeyPress.out.chosen[1].rest = "on"

\* ---------------------------------------------------------------------
\* Properties of useDescendant.

NoPinnedIndex == \A c \in Elements : props[c].indexProp = Null

\* Rank of component c in document order among the rendered components.
DocumentRank(c) == Cardinality({d \in tree : DocPos(d) < DocPos(c)})

\* C3: without pinned indices, once all layout effects and queued updates
\* have run and no re-render is pending, the index returned to each mounted
\* descendant is its rank in document order among the mounted descendants.
C3_SettledIndexIsDocumentRank ==
  (Quiescent /\ NoPinnedIndex) =>
     \A c \in tree : comps[c].index = DocumentRank(c)

\* C8: the index useDescendant returns on a render is the pinned index if
\* one was given; otherwise the position of the record with this
\* descendant's element in the collection that render saw; and -1 when
\* there is no such record.
C8_ReturnedIndex ==
  \A c \in tree :
    comps[c].mounted =>
      LET at == PositionsOf(items, comps[c].element)
      IN /\ props[c].indexProp # Null => comps[c].index = props[c].indexProp
         /\ (props[c].indexProp = Null /\ at = {}) => comps[c].index = -1
         /\ (props[c].indexProp = Null /\ at # {}) =>
              /\ comps[c].index + 1 \in at
              /\ \A k \in at : comps[c].index + 1 <= k

C8_Witness ==
  \E b, c, d \in tree :
    /\ comps[b].mounted /\ comps[c].mounted /\ comps[d].mounted
    /\ props[b].indexProp # Null
    /\ PositionsOf(items, b) # {}
    /\ comps[b].index + 1 \notin PositionsOf(items, b)
    /\ props[c].indexProp = Null
    /\ PositionsOf(items, c) = {2}
    /\ comps[c].index = 1
    /\ props[d].indexProp = Null
    /\ PositionsOf(items, d) = {}
    /\ comps[d].index = -1

\* C21: once the parent mounts and unmounts no more descendants, the
\* render and layout-effect rounds come to an end: from some point on no
\* register or unregister update is queued, no state update is pending and
\* no render is in progress.
C21_RoundsTerminate ==
  (<>[][tree' = tree]_vars) => <>[]Quiescent

\* Three descendants without pinned index have settled after their
\* re-registration rounds: each one's last effect registered the index it
\* now returns.
C21_Witness ==
  /\ Quiescent
  /\ NoPinnedIndex
  /\ Cardinality(tree) = 3
  /\ \A c \in tree :
       /\ comps[c].eff # <<>>
       /\ comps[c].eff[1].element = c
       /\ comps[c].eff[1].index = comps[c].index
       /\ comps[c].index >= 0

\* The element handles a descendant may attach.
Handles == Elements \cup {AltHandle}

\* The non-null elements attached by the mounted descendants.
Attached ==
  {comps[c].element : c \in {d \in tree : comps[d].mounted}} \ {Null}

\* Element e is in the collection although no mounted descendant has it
\* attached: its descendant was unmounted, detached it, or attached
\* another node.
Stale(e) ==
  /\ e \in ElementsOf(items)
  /\ \A c \in Elements : ~(comps[c].mounted /\ comps[c].element = e)

\* C22: in every quiescent state the elements in the collection are
\* exactly the non-null elements attached by the mounted descendants, each
\* in exactly one record; and an element that no mounted descendant has
\* attached any more (after an unmount, a detach or a change of the
\* element handle) is eventually out of the collection.
C22_MembershipFollowsLifecycle ==
  /\ [](Quiescent =>
         /\ ElementsOf(items) = Attached
         /\ Len(items) = Cardinality(Attached))
  /\ \A e \in Handles : Stale(e) ~> (e \notin ElementsOf(items))

\* Descendant 1 attached another node while descendant 2 stayed mounted
\* and a third one was unmounted: the collection holds the new node and
\* the node of descendant 2, neither the old node nor the unmounted one.
C22_Witness ==
  /\ Quiescent
  /\ tree = {1, 2}
  /\ comps[1].element = AltHandle
  /\ ElementsOf(items) = {AltHandle, 2}
  /\ Len(items) = 2

\* C23: without pinned indices, in every quiescent state every record's
\* stored index is its position in the collection; the index useDescendant
\* returned to a descendant with an attached element is the stored index
\* of the record of that element; and a stored index, as the navigator
\* hands it to onSelect, is the returned index of the descendant of that
\* record and of no other descendant.
C23_StoredIndexIsReturnedIndex ==
  (Quiescent /\ NoPinnedIndex) =>
    /\ Indexed(items)
    /\ \A c \in tree :
         comps[c].element # Null =>
           \E i \in 1..Len(items) :
             /\ items[i].element = comps[c].element
             /\ items[i].index = comps[c].index
    /\ \A i \in 1..Len(items) :
         /\ \E c \in tree : comps[c].index = items[i].index
         /\ \A c \in tree :
              comps[c].index = items[i].index
                => comps[c].element = items[i].element

\* Three descendants have settled in an order that is not the document
\* order, after the first one attached another node.
C23_Witness ==
  /\ Quiescent
  /\ NoPinnedIndex
  /\ Len(items) = 3
  /\ comps[1].element = AltHandle
  /\ \E i \in 1..3 : items[i].element = AltHandle /\ comps[1].index = i - 1
  /\ \E c, d \in tree \ {1} :
       DocPos(c) < DocPos(d) /\ comps[c].index > comps[d].index

====
